---- MODULE Spec2Model ----
(***************************************************************************)
(* Model of the M3U playlist merger (src/convert.py, src/is_working.py):   *)
(* the line parser parse_m3u, the liveness probe is_m3u8_working and the   *)
(* driver main (fetch, parse, dedupe, probe, save).                        *)
(*                                                                         *)
(* Python strings are TLA+ strings, taken apart with Len, SubSeq and \o.   *)
(* A Python dict with string keys is a function whose domain is a set of   *)
(* strings; a Python list is a sequence.                                   *)
(***************************************************************************)
EXTENDS Integers, Sequences, FiniteSets, TLC

----------------------------------------------------------------------------
(* Strings: the str methods and regular expressions the code uses.         *)

\* s[i] with a 1-based i; "" outside the string.
Char(s, i) == IF 1 <= i /\ i <= Len(s) THEN SubSeq(s, i, i) ELSE ""

\* s[i:] with a 1-based i.
From(s, i) == SubSeq(s, i, Len(s))

\* str.startswith
StartsWith(s, p) == Len(p) <= Len(s) /\ SubSeq(s, 1, Len(p)) = p

MatchAt(s, p, i) == i >= 1 /\ i + Len(p) - 1 <= Len(s) /\ SubSeq(s, i, i + Len(p) - 1) = p

RECURSIVE FindFrom(_, _, _)
\* str.find from position i (1-based); 0 when p does not occur.
FindFrom(s, p, i) ==
    IF i + Len(p) - 1 > Len(s) THEN 0
    ELSE IF SubSeq(s, i, i + Len(p) - 1) = p THEN i
    ELSE FindFrom(s, p, i + 1)

Find(s, p) == FindFrom(s, p, 1)

\* p in s
Contains(s, p) == Find(s, p) # 0

RECURSIVE RFindFrom(_, _, _)
RFindFrom(s, p, i) ==
    IF i < 1 THEN 0
    ELSE IF SubSeq(s, i, i + Len(p) - 1) = p THEN i
    ELSE RFindFrom(s, p, i - 1)

\* str.rfind
RFind(s, p) == RFindFrom(s, p, Len(s) - Len(p) + 1)

\* The whitespace str.strip() removes and \s matches.
Whitespace == {" ", "\t", "\n", "\r"}

RECURSIVE SkipChars(_, _, _)
\* The least index >= i whose character is not in cs; Len(s) + 1 when none.
SkipChars(s, i, cs) ==
    IF i > Len(s) THEN Len(s) + 1
    ELSE IF SubSeq(s, i, i) \notin cs THEN i
    ELSE SkipChars(s, i + 1, cs)

RECURSIVE SkipUntil(_, _, _)
\* The least index >= i whose character is in cs; Len(s) + 1 when none.
SkipUntil(s, i, cs) ==
    IF i > Len(s) THEN Len(s) + 1
    ELSE IF SubSeq(s, i, i) \in cs THEN i
    ELSE SkipUntil(s, i + 1, cs)

RECURSIVE LastNotInFrom(_, _, _)
LastNotInFrom(s, i, cs) ==
    IF i < 1 THEN 0
    ELSE IF SubSeq(s, i, i) \notin cs THEN i
    ELSE LastNotInFrom(s, i - 1, cs)

\* The greatest index whose character is not in cs; 0 when none.
LastNotIn(s, cs) == LastNotInFrom(s, Len(s), cs)

\* str.strip(chars)
StripChars(s, cs) == SubSeq(s, SkipChars(s, 1, cs), LastNotIn(s, cs))

\* str.strip()
Strip(s) == StripChars(s, Whitespace)

UpperLetters == "ABCDEFGHIJKLMNOPQRSTUVWXYZ"

LowerLetters == "abcdefghijklmnopqrstuvwxyz"

ToLower == [c \in {SubSeq(UpperLetters, k, k) : k \in 1..26} |-> SubSeq(LowerLetters, Find(UpperLetters, c), Find(UpperLetters, c))]

ToUpper == [c \in {SubSeq(LowerLetters, k, k) : k \in 1..26} |-> SubSeq(UpperLetters, Find(LowerLetters, c), Find(LowerLetters, c))]

LowerChar(c) == IF c \in DOMAIN ToLower THEN ToLower[c] ELSE c

UpperChar(c) == IF c \in DOMAIN ToUpper THEN ToUpper[c] ELSE c

RECURSIVE Lower(_)
\* str.lower
Lower(s) == IF s = "" THEN "" ELSE LowerChar(Char(s, 1)) \o Lower(From(s, 2))

\* str.capitalize
Capitalize(s) == IF s = "" THEN "" ELSE UpperChar(Char(s, 1)) \o Lower(From(s, 2))

Digits == "0123456789"

\* The regular expression class \w.
WordChars ==
    {Char(LowerLetters, k) : k \in 1..Len(LowerLetters)} \cup {Char(UpperLetters, k) : k \in 1..Len(UpperLetters)}
        \cup {Char(Digits, k) : k \in 1..Len(Digits)} \cup {"_"}

IsWord(c) == c \in WordChars

RECURSIVE Split(_, _)
\* str.split(sep)
Split(s, sep) ==
    LET k == Find(s, sep)
    IN  IF k = 0 THEN <<s>> ELSE <<SubSeq(s, 1, k - 1)>> \o Split(From(s, k + Len(sep)), sep)

\* str.split(sep, 1)
SplitOnce(s, sep) ==
    LET k == Find(s, sep)
    IN  IF k = 0 THEN <<s>> ELSE <<SubSeq(s, 1, k - 1), From(s, k + Len(sep))>>

Last(q) == q[Len(q)]

RECURSIVE SubNonWord(_)
\* re.sub(r'\W+', '_', s)
SubNonWord(s) ==
    IF s = "" THEN ""
    ELSE IF IsWord(Char(s, 1)) THEN Char(s, 1) \o SubNonWord(From(s, 2))
    ELSE "_" \o SubNonWord(From(s, SkipUntil(s, 2, WordChars)))

(* Dictionaries. *)

EmptyDict == [k \in {} |-> ""]

\* dict.update: the entries of e replace or extend those of d.
Update(d, e) == [k \in (DOMAIN d) \cup (DOMAIN e) |-> IF k \in DOMAIN e THEN e[k] ELSE d[k]]

\* dict.get(key, default)
Get(d, key, default) == IF key \in DOMAIN d THEN d[key] ELSE default

\* An Optional[str]: None is the empty sequence, a string s is <<s>>.
None == <<>>

Some(v) == <<v>>

\* dict.get(key), None when the key is missing.
GetOpt(d, key) == IF key \in DOMAIN d THEN Some(d[key]) ELSE None

----------------------------------------------------------------------------
(* The parsers of one line (convert.py).                                   *)

\* One match of (\w[\w-]*)\s*=\s*"([^"]*)" starting exactly at index i.
AttrMatchAt(line, i) ==
    LET ke == SkipChars(line, i, WordChars \cup {"-"})
        eq == SkipChars(line, ke, Whitespace)
        oq == SkipChars(line, eq + 1, Whitespace)
        cq == FindFrom(line, "\"", oq + 1)
    IN  IF IsWord(Char(line, i)) /\ Char(line, eq) = "=" /\ Char(line, oq) = "\"" /\ cq # 0
        THEN [ok |-> TRUE, key |-> SubSeq(line, i, ke - 1), value |-> SubSeq(line, oq + 1, cq - 1), end |-> cq]
        ELSE [ok |-> FALSE, key |-> "", value |-> "", end |-> i]

RECURSIVE AttrScan(_, _, _)
\* re.finditer from index i on: each match stores attrs[key] = value.
AttrScan(line, i, attrs) ==
    IF i > Len(line) THEN attrs
    ELSE LET m == AttrMatchAt(line, i)
         IN  IF m.ok THEN AttrScan(line, m.end + 1, Update(attrs, (m.key :> m.value)))
             ELSE AttrScan(line, i + 1, attrs)

\* _parse_extinf_attributes
ParseExtinfAttributes(extinf_line) == AttrScan(extinf_line, 1, EmptyDict)

\* The characters [^\\s] excludes: the class is written in a raw string, so it
\* holds a backslash and the letter s.
UserAgentStop == {"\\", "s"}

UserAgentKey == "http-user-agent="

\* re.search of key followed by one or more characters not in stop: the text
\* of the group, for the first occurrence of key with such a character after
\* it; None without a match.
KeyRun(text, key, stop) ==
    LET ok(k) == /\ MatchAt(text, key, k)
                 /\ k + Len(key) <= Len(text)
                 /\ Char(text, k + Len(key)) \notin stop
        hits == {k \in 1..Len(text) : ok(k)}
        first == CHOOSE k \in hits : \A j \in hits : k <= j
    IN  IF hits = {} THEN None
        ELSE Some(SubSeq(text, first + Len(key), SkipUntil(text, first + Len(key), stop) - 1))

\* _parse_extvlcopt: re.search(r'http-user-agent=([^\\s]+)', line)
ParseExtvlcopt(line) ==
    LET m == KeyRun(line, UserAgentKey, UserAgentStop)
    IN  IF m # None THEN [user_agent |-> m[1]] ELSE EmptyDict

(* json.loads on the texts the model feeds it: an object whose keys and      *)
(* values are strings without escapes, or a malformed text. The result is   *)
(* [ok, obj]; ok = FALSE is JSONDecodeError.                                 *)

JsonWs == {" ", "\t"}

JsonFail == [ok |-> FALSE, obj |-> EmptyDict, end |-> 0]

\* A string literal starting at index i: [ok, val, end], end the index after it.
\* A control character (the tab) inside a string is an error.
JsonString(s, i) ==
    LET cq == FindFrom(s, "\"", i + 1)
    IN  IF Char(s, i) = "\"" /\ cq # 0 /\ ~Contains(SubSeq(s, i + 1, cq - 1), "\t")
        THEN [ok |-> TRUE, val |-> SubSeq(s, i + 1, cq - 1), end |-> cq + 1]
        ELSE [ok |-> FALSE, val |-> "", end |-> i]

RECURSIVE JsonMembers(_, _, _)
\* The members of an object from index i (the start of a key) on.
JsonMembers(s, i, obj) ==
    LET key == JsonString(s, i)
        col == SkipChars(s, key.end, JsonWs)
        val == JsonString(s, SkipChars(s, col + 1, JsonWs))
        nxt == SkipChars(s, val.end, JsonWs)
        got == Update(obj, (key.val :> val.val))
    IN  IF ~key.ok \/ Char(s, col) # ":" \/ ~val.ok THEN JsonFail
        ELSE IF Char(s, nxt) = "}" THEN [ok |-> TRUE, obj |-> got, end |-> nxt + 1]
        ELSE IF Char(s, nxt) = "," THEN JsonMembers(s, SkipChars(s, nxt + 1, JsonWs), got)
        ELSE JsonFail

\* json.loads
JsonLoads(s) ==
    LET open == SkipChars(s, 1, JsonWs)
        first == SkipChars(s, open + 1, JsonWs)
        body == IF Char(s, first) = "}" THEN [ok |-> TRUE, obj |-> EmptyDict, end |-> first + 1]
                ELSE JsonMembers(s, first, EmptyDict)
    IN  IF Char(s, open) = "{" /\ body.ok /\ SkipChars(s, body.end, JsonWs) = Len(s) + 1
        THEN [ok |-> TRUE, obj |-> body.obj]
        ELSE [ok |-> FALSE, obj |-> EmptyDict]

ExthttpKey == "#EXTHTTP:{"

\* re.search(r'#EXTHTTP:(\{.*\})', line): group 1, from the brace after the
\* first marker to the last closing brace of the line; None without a match.
ExthttpJson(line) ==
    LET k == Find(line, ExthttpKey)
        ob == k + Len(ExthttpKey) - 1
        cb == RFind(line, "}")
    IN  IF k # 0 /\ cb > ob THEN Some(SubSeq(line, ob, cb)) ELSE None

\* _parse_exthttp that stores the other keys under their own names.
ParseExthttp_NoPrefix(line) ==
    LET js == ExthttpJson(line)
        data == IF js = None THEN [ok |-> FALSE, obj |-> EmptyDict] ELSE JsonLoads(js[1])
        others == (DOMAIN data.obj) \ {"cookie"}
        http == [k \in others |-> data.obj[k]]
    IN  IF ~data.ok THEN EmptyDict
        ELSE IF "cookie" \in DOMAIN data.obj THEN Update([cookies |-> data.obj["cookie"]], http)
        ELSE http

\* _parse_exthttp: the cookie as "cookies", every other key k as "http_k";
\* nothing when the line has no JSON object or json.loads raises.
ParseExthttp(line) ==
    LET js == ExthttpJson(line)
        data == IF js = None THEN [ok |-> FALSE, obj |-> EmptyDict] ELSE JsonLoads(js[1])
        others == (DOMAIN data.obj) \ {"cookie"}
        http == [k \in {"http_" \o key : key \in others} |->
                    data.obj[CHOOSE key \in others : "http_" \o key = k]]
    IN  IF ~data.ok THEN EmptyDict
        ELSE IF "cookie" \in DOMAIN data.obj THEN Update([cookies |-> data.obj["cookie"]], http)
        ELSE http

SimpleCategories ==
    {"cricket", "football", "soccer", "basketball", "baseball", "hockey", "news", "movies", "kids", "music"}

\* any(k in s for k in keywords)
ContainsAny(s, keywords) == \E k \in keywords : Contains(s, k)

\* The keyword checks on a cleaned, lower-cased vendor category; fallback
\* is returned when no keyword is contained.
CategoryKeyword(lc, fallback) ==
    IF Contains(lc, "cricket") THEN "Cricket"
    ELSE IF ContainsAny(lc, {"football", "soccer"}) THEN "Football"
    ELSE IF ContainsAny(lc, {"basketball", "nba"}) THEN "Basketball"
    ELSE IF ContainsAny(lc, {"baseball", "mlb"}) THEN "Baseball"
    ELSE IF ContainsAny(lc, {"hockey", "nhl"}) THEN "Hockey"
    ELSE IF ContainsAny(lc, {"news", "cnn", "bbc", "fox news"}) THEN "News"
    ELSE IF ContainsAny(lc, {"movie", "cinema", "film", "hbo"}) THEN "Movies"
    ELSE fallback

\* The keyword checks on a title with the first two in the other order.
TitleKeyword_FootballFirst(t) ==
    IF ContainsAny(t, {"football", "soccer"}) THEN "Football"
    ELSE IF Contains(t, "cricket") THEN "Cricket"
    ELSE IF ContainsAny(t, {"nba", "basketball"}) THEN "Basketball"
    ELSE IF ContainsAny(t, {"mlb", "baseball"}) THEN "Baseball"
    ELSE IF ContainsAny(t, {"nhl", "hockey"}) THEN "Hockey"
    ELSE IF ContainsAny(t, {"news", "cnn", "fox news", "bbc"}) THEN "News"
    ELSE IF ContainsAny(t, {"movie", "cinema", "film", "hbo"}) THEN "Movies"
    ELSE "General"

\* The keyword checks on a lower-cased title.
TitleKeyword(t) ==
    IF Contains(t, "cricket") THEN "Cricket"
    ELSE IF ContainsAny(t, {"football", "soccer"}) THEN "Football"
    ELSE IF ContainsAny(t, {"nba", "basketball"}) THEN "Basketball"
    ELSE IF ContainsAny(t, {"mlb", "baseball"}) THEN "Baseball"
    ELSE IF ContainsAny(t, {"nhl", "hockey"}) THEN "Hockey"
    ELSE IF ContainsAny(t, {"news", "cnn", "fox news", "bbc"}) THEN "News"
    ELSE IF ContainsAny(t, {"movie", "cinema", "film", "hbo"}) THEN "Movies"
    ELSE "General"

\* The vendor category after strip, the Fancode- prefix and the last
\* non-empty part between semicolons.
CleanCategory(raw) ==
    LET stripped == Strip(raw)
        noprefix == IF StartsWith(Lower(stripped), "fancode-") THEN SplitOnce(stripped, "-")[2] ELSE stripped
        parts == SelectSeq([i \in 1..Len(Split(noprefix, ";")) |-> Strip(Split(noprefix, ";")[i])],
                           LAMBDA q : q # "")
    IN  IF Contains(noprefix, ";") /\ parts # <<>> THEN Last(parts) ELSE noprefix

\* _normalize_category
NormalizeCategory(raw_category, title) ==
    IF raw_category # None /\ raw_category[1] # "" /\ Strip(raw_category[1]) # ""
    THEN LET cat == CleanCategory(raw_category[1])
         IN  IF Lower(cat) \in SimpleCategories THEN Capitalize(cat)
             ELSE CategoryKeyword(Lower(cat), cat)
    ELSE TitleKeyword(Lower(title))

\* The title found after the comma of a header line (parse_m3u, before the
\* tvg-name attribute is preferred): re.search(r',\s*(.*)') takes the text
\* after the first comma of the line.
SuffixMatch(line) ==
    LET c == Find(line, ",")
    IN  IF c = 0 THEN "Unknown" ELSE Strip(From(line, SkipChars(line, c + 1, Whitespace)))

HasUrlPart(t) == Contains(t, "http") \/ Contains(t, "w_300") \/ Contains(t, "w_240")

\* The last part after a quote-comma separator, when the title holds URL parts.
CutUrlPart(t) ==
    IF t # "" /\ HasUrlPart(t)
    THEN IF Contains(t, "\", ") THEN Strip(Last(Split(t, "\", ")))
         ELSE IF Contains(t, "\",") THEN Strip(Last(Split(t, "\",")))
         ELSE IF Contains(t, "\\\", ") THEN Strip(Last(Split(t, "\\\", ")))
         ELSE IF Contains(t, "\\\",") THEN Strip(Last(Split(t, "\\\",")))
         ELSE t
    ELSE t

\* The leading "& ", the surrounding quotes and a remaining URL artifact.
CleanTitle(t) ==
    LET a == IF StartsWith(t, "& ") THEN From(t, 3) ELSE t
        b == StripChars(a, {"\"", "'"})
    IN  IF t = "" THEN t
        ELSE IF Contains(b, "/") /\ (Contains(b, "w_300") \/ Contains(b, "w_240")) /\ Contains(b, ",")
        THEN Strip(Last(Split(b, ",")))
        ELSE b

TitleFromSuffix(line) == CleanTitle(CutUrlPart(SuffixMatch(line)))

\* x or y on strings
Or(a, b) == IF a # "" THEN a ELSE b

\* The record a header line starts (parse_m3u, the #EXTINF branch).
HeaderRecord(line) ==
    LET attrs == ParseExtinfAttributes(line)
        title == Or(Get(attrs, "tvg-name", ""), Or(TitleFromSuffix(line), "Unknown"))
    IN  [id |-> SubNonWord(Lower(title)),
         title |-> title,
         category |-> NormalizeCategory(GetOpt(attrs, "group-title"), title),
         logo |-> Get(attrs, "tvg-logo", ""),
         tvg_id |-> Get(attrs, "tvg-id", ""),
         tvg_chno |-> Get(attrs, "tvg-chno", "")]

----------------------------------------------------------------------------
(* parse_m3u: the loop over the lines. The state of the loop is             *)
(* [channels, current, current_opts].                                       *)

RECURSIVE Splitlines(_)
\* str.splitlines for the line breaks \n, \r\n and \r.
Splitlines(text) ==
    LET k == SkipUntil(text, 1, {"\n", "\r"})
        after == IF Char(text, k) = "\r" /\ Char(text, k + 1) = "\n" THEN k + 2 ELSE k + 1
    IN  IF text = "" THEN <<>>
        ELSE IF k > Len(text) THEN <<text>>
        ELSE <<SubSeq(text, 1, k - 1)>> \o Splitlines(From(text, after))

ParseStart == [channels |-> <<>>, current |-> EmptyDict, current_opts |-> EmptyDict]

\* HeaderLine with a slip: a pending record that got no URL line is emitted
\* when the next header line comes, instead of being dropped.
HeaderLine_FlushesPending(st, line) ==
    [st EXCEPT !.channels = IF DOMAIN st.current # {} THEN Append(st.channels, st.current) ELSE st.channels,
               !.current = HeaderRecord(line),
               !.current_opts = EmptyDict]

\* line.startswith("#EXTINF"): a new record, the pending options reset.
HeaderLine(st, line) == [st EXCEPT !.current = HeaderRecord(line), !.current_opts = EmptyDict]

\* line.startswith("#EXTVLCOPT")
VlcoptLine(st, line) == [st EXCEPT !.current_opts = Update(st.current_opts, ParseExtvlcopt(line))]

\* line.startswith("#EXTHTTP")
ExthttpLine(st, line) == [st EXCEPT !.current_opts = Update(st.current_opts, ParseExthttp(line))]

\* UrlLine with a slip: the line is stored as it is, not stripped.
UrlLine_NoStrip(st, line) ==
    LET withUrl == Update(st.current, [m3u8 |-> line])
        rec == IF DOMAIN st.current_opts # {} THEN Update(withUrl, st.current_opts) ELSE withUrl
    IN  [st EXCEPT !.channels = Append(st.channels, rec), !.current = EmptyDict]

\* line.startswith("http"): the URL and the pending options go into current,
\* current is appended and replaced by an empty dict; current_opts stays.
UrlLine(st, line) ==
    LET withUrl == Update(st.current, [m3u8 |-> Strip(line)])
        rec == IF DOMAIN st.current_opts # {} THEN Update(withUrl, st.current_opts) ELSE withUrl
    IN  [st EXCEPT !.channels = Append(st.channels, rec), !.current = EmptyDict]

\* One iteration of the loop.
ParseLine(st, line) ==
    IF StartsWith(line, "#EXTINF") THEN HeaderLine(st, line)
    ELSE IF StartsWith(line, "#EXTVLCOPT") THEN VlcoptLine(st, line)
    ELSE IF StartsWith(line, "#EXTHTTP") THEN ExthttpLine(st, line)
    ELSE IF StartsWith(line, "http") THEN UrlLine(st, line)
    ELSE st

RECURSIVE ParseLines(_, _)
ParseLines(st, ls) == IF ls = <<>> THEN st ELSE ParseLines(ParseLine(st, Head(ls)), Tail(ls))

\* parse_m3u
ParseM3u(m3u_text) == ParseLines(ParseStart, Splitlines(Strip(m3u_text))).channels

----------------------------------------------------------------------------
(* is_m3u8_working (convert.py and is_working.py).                          *)

DefaultUserAgent == "Mozilla/5.0 (compatible; M3U-Merger/1.0)"

CiUserAgent == "GitHub-Actions/1.0"

\* The user agent after the environment check, which only is_working.py has.
EffectiveUserAgent(module_name, github_actions, ua) ==
    IF module_name = "is_working" /\ github_actions /\ ua = "" THEN CiUserAgent ELSE ua

\* headers = {"User-Agent": user_agent or default}
Headers(ua) == ("User-Agent" :> Or(ua, DefaultUserAgent))

\* A cookies argument: a string, or a value that is not a string (a number
\* or an object of the channel's JSON), which str operations raise on.
StrArg(v) == [is_str |-> TRUE, val |-> v]

NonStrArg == [is_str |-> FALSE, val |-> "123"]

RECURSIVE StandardCookies(_, _)
\* for cookie in cookies.split(';'): name=value pairs, stripped
StandardCookies(parts, acc) ==
    IF parts = <<>> THEN acc
    ELSE LET nv == SplitOnce(Strip(Head(parts)), "=")
         IN  IF Contains(Head(parts), "=")
             THEN StandardCookies(Tail(parts), Update(acc, (Strip(nv[1]) :> Strip(nv[2]))))
             ELSE StandardCookies(Tail(parts), acc)

\* The body of the try block that fills cookie_dict, for a string.
CookieDict(c) ==
    IF Contains(c, "Edge-Cache-Cookie=")
    THEN LET m == KeyRun(c, "Edge-Cache-Cookie=", {";"})
         IN  IF m # None THEN ("Edge-Cache-Cookie" :> m[1]) ELSE EmptyDict
    ELSE StandardCookies(Split(c, ";"), EmptyDict)

\* cookie_dict after "if cookies: try: ... except Exception": a value that is
\* not a string raises in the try block, which leaves cookie_dict empty.
ParseCookies(c) ==
    IF ~c.is_str THEN EmptyDict
    ELSE IF c.val = "" THEN EmptyDict
    ELSE CookieDict(c.val)

\* What the network gives one request: a response with a status, or an
\* exception (connection error, timeout).
Response(status) == [raised |-> FALSE, status |-> status]

Raised == [raised |-> TRUE, status |-> 0]

NoResponse == [raised |-> FALSE, status |-> 0]

Statuses == {199, 200, 299, 300, 404}

Outcomes == {Response(n) : n \in Statuses} \cup {Raised}

\* 200 <= status_code < 300
IsSuccess(resp) == ~resp.raised /\ 200 <= resp.status /\ resp.status < 300

\* AfterHead with a slip: the GET follows whatever the HEAD gave.
AfterHead_AlwaysGet(resp) == [pc |-> "get", result |-> "none"]

\* AfterHead with a slip: an exception of requests.head is not caught.
AfterHead_Uncaught(resp) ==
    IF resp.raised THEN [pc |-> "raised", result |-> "none"]
    ELSE IF 200 <= resp.status /\ resp.status < 300 THEN [pc |-> "returned", result |-> "True"]
    ELSE [pc |-> "get", result |-> "none"]

\* Where is_m3u8_working is after requests.head: a success status returns
\* True; any other status and any exception (caught, printed) go on to GET.
AfterHead(resp) ==
    IF resp.raised THEN [pc |-> "get", result |-> "none"]
    ELSE IF IsSuccess(resp) THEN [pc |-> "returned", result |-> "True"]
    ELSE [pc |-> "get", result |-> "none"]

\* After requests.get: an exception and a status outside 200..299 return
\* False; a success status goes on to read a chunk.
AfterGet(resp) ==
    IF resp.raised THEN [pc |-> "returned", result |-> "False"]
    ELSE IF ~IsSuccess(resp) THEN [pc |-> "returned", result |-> "False"]
    ELSE [pc |-> "read", result |-> "none"]

\* AfterRead with a slip: a failed read of the body counts as unreachable.
AfterRead_FailedReadIsDown(read_raised) ==
    IF read_raised THEN [pc |-> "returned", result |-> "False"]
    ELSE [pc |-> "returned", result |-> "True"]

\* After next(r.iter_content(chunk_size=256), None): True, also when the
\* read raises.
AfterRead(read_raised) ==
    IF read_raised THEN [pc |-> "returned", result |-> "True"]
    ELSE [pc |-> "returned", result |-> "True"]

----------------------------------------------------------------------------
(* main (convert.py): the operations of the driver on its data.             *)

\* The playlist sources, in configured order.
M3U_URLS ==
    <<"https://raw.githubusercontent.com/abusaeeidx/IPTV-Scraper-Zilla/refs/heads/main/CricHD.m3u",
      "https://raw.githubusercontent.com/abusaeeidx/Toffee-playlist/refs/heads/main/ott_navigator.m3u",
      "https://raw.githubusercontent.com/abusaeeidx/T-Sports-Playlist-Auto-Update/refs/heads/main/combine_playlist.m3u",
      "https://raw.githubusercontent.com/abusaeeidx/Ayna-Playlists-free-Version/refs/heads/main/playlist.m3u">>

\* The number of channels of the debugging loop: min(5, len(deduped)).
DebugCount == 5

Min(a, b) == IF a <= b THEN a ELSE b

\* The key a channel is deduplicated by: ch.get("m3u8", "").strip()
DedupeKey(ch) == Strip(Get(ch, "m3u8", ""))

\* deduped, a dict in insertion order, is a sequence of [key, ch].
Keys(d) == {d[i].key : i \in 1..Len(d)}

\* list(deduped.values())
Values(d) == [i \in 1..Len(d) |-> d[i].ch]

\* DedupeStep with a slip: a later channel of a known URL replaces the first.
DedupeStep_LastWins(d, ch) ==
    IF DedupeKey(ch) = "" THEN d
    ELSE IF DedupeKey(ch) \notin Keys(d) THEN Append(d, [key |-> DedupeKey(ch), ch |-> ch])
    ELSE [i \in 1..Len(d) |-> IF d[i].key = DedupeKey(ch) THEN [key |-> d[i].key, ch |-> ch] ELSE d[i]]

\* DedupeStep with a slip: a new URL is put in front of those already seen.
DedupeStep_Prepends(d, ch) ==
    IF DedupeKey(ch) = "" THEN d
    ELSE IF DedupeKey(ch) \notin Keys(d) THEN <<[key |-> DedupeKey(ch), ch |-> ch]>> \o d
    ELSE d

\* One iteration of the dedupe loop: a channel without a URL is skipped, the
\* first channel of a URL is kept.
DedupeStep(d, ch) ==
    IF DedupeKey(ch) = "" THEN d
    ELSE IF DedupeKey(ch) \notin Keys(d) THEN Append(d, [key |-> DedupeKey(ch), ch |-> ch])
    ELSE d

\* test_count = min(5, len(deduped))
TestCount(d) == Min(DebugCount, Len(d))

\* list(deduped.items())[:test_count]
DebugItems(d, tc) == SubSeq(d, 1, tc)

\* RestItems with a slip: the second loop starts one item early.
RestItems_Overlap(d, tc) == IF tc = 0 THEN <<>> ELSE SubSeq(d, tc, Len(d))

\* list(deduped.items())[test_count:]
RestItems(d, tc) == SubSeq(d, tc + 1, Len(d))

\* save_json: the file holds the list.
SaveJson(fs, name, list) == Update(fs, (name :> list))

----------------------------------------------------------------------------
(* State.                                                                  *)

VARIABLES
    \* parse_m3u: its argument, its locals and its position
    m3u_text, lines, line_no, channels, current, current_opts, parse_pc,
    \* is_m3u8_working: the module it is taken from, the environment, its
    \* arguments, its locals, the requests it has sent and its result
    module_name, github_actions, url, cookies, user_agent, headers, cookie_dict, head, r,
    requests, probe_pc, probe_result,
    \* main: its position, its locals, the files written and the calls of
    \* is_m3u8_working it has made
    main_pc, src_no, all_channels, dd_no, deduped, files, test_count, checked, loop_i,
    working_channels, probe_log, fetch_log,
    \* a second run of the dedupe loop on the output of the first
    pass_no, first_output,
    \* load_existing_json: the file at its path, its locals, its position
    \* and the list it returns
    path, load_no, normalized, load_pc, load_result,
    \* _normalize_category: its arguments, its position and what it returns
    raw_category, title, normalize_pc, normalize_result

parseVars == <<m3u_text, lines, line_no, channels, current, current_opts, parse_pc>>

probeVars ==
    <<module_name, github_actions, url, cookies, user_agent, headers, cookie_dict, head, r,
      requests, probe_pc, probe_result>>

dedupeVars == <<all_channels, dd_no, deduped>>

driverVars ==
    <<main_pc, src_no, files, test_count, checked, loop_i, working_channels, probe_log, fetch_log>>

rerunVars == <<pass_no, first_output>>

loadVars == <<path, load_no, normalized, load_pc, load_result>>

categoryVars == <<raw_category, title, normalize_pc, normalize_result>>

vars == <<parseVars, probeVars, dedupeVars, driverVars, rerunVars, loadVars, categoryVars>>

ProbeIdle ==
    /\ module_name = "convert"
    /\ github_actions = FALSE
    /\ url = ""
    /\ cookies = StrArg("")
    /\ user_agent = ""
    /\ headers = EmptyDict
    /\ cookie_dict = EmptyDict
    /\ head = NoResponse
    /\ r = NoResponse
    /\ requests = <<>>
    /\ probe_pc = "idle"
    /\ probe_result = "none"

DedupeIdle ==
    /\ all_channels = <<>>
    /\ dd_no = 1
    /\ deduped = <<>>

DriverIdle ==
    /\ main_pc = "idle"
    /\ src_no = 1
    /\ files = EmptyDict
    /\ test_count = 0
    /\ checked = 0
    /\ loop_i = 1
    /\ working_channels = <<>>
    /\ probe_log = <<>>
    /\ fetch_log = <<>>

RerunIdle ==
    /\ pass_no = 1
    /\ first_output = <<>>

\* not path.exists()
NoFile == [exists |-> FALSE]

LoadIdle ==
    /\ path = NoFile
    /\ load_no = 1
    /\ normalized = <<>>
    /\ load_pc = "idle"
    /\ load_result = <<>>

CategoryIdle ==
    /\ raw_category = None
    /\ title = ""
    /\ normalize_pc = "idle"
    /\ normalize_result = ""

----------------------------------------------------------------------------
(* The playlist texts parse_m3u is run on.                                  *)

\* The longest text, in lines.
MaxLines == 4

LinePool ==
    {"#EXTINF:-1 tvg-name=\"Demo Sports\" group-title=\"Fancode-Cricket\",Demo",
     "#EXTINF:-1,Channel One",
     "#EXTVLCOPT:http-user-agent=VLC/3.0",
     "#EXTHTTP:{\"cookie\":\"k=v\"}",
     "http://a.tv/1.m3u8",
     "http://b.tv/2.m3u8 ",
     " http://c.tv/3.m3u8"}

RECURSIVE Join(_, _)
\* sep.join(parts)
Join(parts, sep) ==
    IF parts = <<>> THEN ""
    ELSE IF Len(parts) = 1 THEN parts[1]
    ELSE parts[1] \o sep \o Join(Tail(parts), sep)

Texts == UNION {{Join(f, "\n") : f \in [1..n -> LinePool]} : n \in 0..MaxLines}

----------------------------------------------------------------------------
(* parse_m3u, one line at a time.                                           *)

ParseIdle ==
    /\ m3u_text = ""
    /\ lines = <<>>
    /\ line_no = 1
    /\ channels = <<>>
    /\ current = EmptyDict
    /\ current_opts = EmptyDict
    /\ parse_pc = "idle"

InitParse ==
    /\ m3u_text \in Texts
    /\ lines = <<>>
    /\ line_no = 1
    /\ channels = <<>>
    /\ current = EmptyDict
    /\ current_opts = EmptyDict
    /\ parse_pc = "call"
    /\ ProbeIdle /\ DedupeIdle /\ DriverIdle /\ RerunIdle /\ LoadIdle /\ CategoryIdle

otherThanParse == <<probeVars, dedupeVars, driverVars, rerunVars, loadVars, categoryVars>>

\* lines = m3u_text.strip().splitlines(); channels = []; current = {}; current_opts = {}
ParseBegin ==
    /\ parse_pc = "call"
    /\ lines' = Splitlines(Strip(m3u_text))
    /\ line_no' = 1
    /\ channels' = ParseStart.channels
    /\ current' = ParseStart.current
    /\ current_opts' = ParseStart.current_opts
    /\ parse_pc' = "loop"
    /\ UNCHANGED <<m3u_text, otherThanParse>>

\* for line in lines: one iteration
ParseIterate ==
    /\ parse_pc = "loop"
    /\ line_no <= Len(lines)
    /\ LET st == ParseLine([channels |-> channels, current |-> current, current_opts |-> current_opts],
                           lines[line_no])
       IN  /\ channels' = st.channels
           /\ current' = st.current
           /\ current_opts' = st.current_opts
    /\ line_no' = line_no + 1
    /\ UNCHANGED <<m3u_text, lines, parse_pc, otherThanParse>>

\* return channels
ParseReturn ==
    /\ parse_pc = "loop"
    /\ line_no > Len(lines)
    /\ parse_pc' = "returned"
    /\ UNCHANGED <<m3u_text, lines, line_no, channels, current, current_opts, otherThanParse>>

NextParse == ParseBegin \/ ParseIterate \/ ParseReturn

SpecParse == InitParse /\ [][NextParse]_vars

----------------------------------------------------------------------------
(* Claims about parse_m3u (SpecParse).                                      *)

IsHeaderLine(l) == StartsWith(l, "#EXTINF")

IsUrlLine(l) == StartsWith(l, "http")

\* The lines the loop has gone through.
Seen == 1..(line_no - 1)

\* The positions of the URL lines gone through, in text order.
UrlPositions == SelectSeq([i \in Seen |-> i], LAMBDA i : IsUrlLine(lines[i]))

\* The header line that started the entry a URL line at p ends: the last
\* header before p with no URL line in between; 0 when there is none.
OwnHeader(p) ==
    LET hs == {h \in 1..(p - 1) : IsHeaderLine(lines[h]) /\ \A j \in (h + 1)..(p - 1) : ~IsUrlLine(lines[j])}
    IN  IF hs = {} THEN 0 ELSE CHOOSE h \in hs : \A g \in hs : g <= h

\* Where the entry of a URL line at p starts: its own header, else the line
\* after the previous URL line, else the start of the text.
EntryStart(p) ==
    LET us == {u \in 1..(p - 1) : IsUrlLine(lines[u])}
    IN  IF OwnHeader(p) # 0 THEN OwnHeader(p)
        ELSE IF us = {} THEN 0 ELSE CHOOSE u \in us : \A v \in us : v <= u

HeaderKeys == {"id", "title", "category", "logo", "tvg_id", "tvg_chno"}

\* The keys of a record that come from option lines.
OptionPart(rec) == [k \in (DOMAIN rec) \ (HeaderKeys \cup {"m3u8"}) |-> rec[k]]

RECURSIVE OptionsBetween(_, _)
\* What the option lines strictly between positions a and b give, later
\* lines overriding earlier ones.
OptionsBetween(a, b) ==
    IF b - 1 <= a THEN EmptyDict
    ELSE LET l == lines[b - 1]
             here == IF StartsWith(l, "#EXTVLCOPT") THEN ParseExtvlcopt(l)
                     ELSE IF StartsWith(l, "#EXTHTTP") THEN ParseExthttp(l)
                     ELSE EmptyDict
         IN  Update(OptionsBetween(a, b - 1), here)

\* C1: every record parse_m3u emits was started by a header line: it has a
\* non-empty id, a title and a category.
C1_EmittedRecordsHaveHeaderFields ==
    \A k \in 1..Len(channels) :
        /\ {"id", "title", "category"} \subseteq DOMAIN channels[k]
        /\ channels[k]["id"] # ""

\* C2: the options on an emitted record are exactly those of the option
\* lines between the start of its own entry and its URL line; the options of
\* an earlier channel are not on it.
C2_OptionsAreTheEntrysOwn ==
    \A k \in 1..Len(channels) :
        k <= Len(UrlPositions) =>
            OptionPart(channels[k]) = OptionsBetween(EntryStart(UrlPositions[k]), UrlPositions[k])

\* C3: a header line with no URL line before the next header line or the end
\* of the text yields no record, and no field derived from it is in an
\* emitted record: there is one record per URL line, and its header fields
\* are those of its own header line (none when it has no header line).
C3_DiscardedHeaderLeavesNothing ==
    /\ Len(channels) = Len(UrlPositions)
    /\ \A k \in 1..Len(channels) :
          LET h == OwnHeader(UrlPositions[k])
          IN  IF h = 0 THEN (DOMAIN channels[k]) \cap HeaderKeys = {}
              ELSE \A f \in HeaderKeys : f \in DOMAIN channels[k] /\ channels[k][f] = HeaderRecord(lines[h])[f]

\* A header line was discarded (another header line followed it before any
\* URL line), the parse has returned, and a record of a later header is out.
C3_Witness ==
    /\ parse_pc = "returned"
    /\ Len(channels) >= 1
    /\ \E h \in 1..Len(lines) : \E g \in (h + 1)..Len(lines) :
          /\ IsHeaderLine(lines[h]) /\ IsHeaderLine(lines[g])
          /\ HeaderRecord(lines[h])["title"] # HeaderRecord(lines[g])["title"]
          /\ \A j \in (h + 1)..(g - 1) : ~IsUrlLine(lines[j])
          /\ \E p \in (g + 1)..Len(lines) : IsUrlLine(lines[p]) /\ OwnHeader(p) = g

----------------------------------------------------------------------------
(* is_m3u8_working, one request at a time.                                  *)

otherThanProbe == <<parseVars, dedupeVars, driverVars, rerunVars, loadVars, categoryVars>>

ProbeUrls == {"http://a.tv/1.m3u8"}

ProbeCookies == {StrArg(""), StrArg("Edge-Cache-Cookie=abc; x=1"), StrArg("a=1; b = 2;c"), NonStrArg}

ProbeUserAgents == {"", "VLC/3.0"}

InitProbe ==
    /\ module_name \in {"convert", "is_working"}
    /\ github_actions \in BOOLEAN
    /\ url \in ProbeUrls
    /\ cookies \in ProbeCookies
    /\ user_agent \in ProbeUserAgents
    /\ headers = EmptyDict
    /\ cookie_dict = EmptyDict
    /\ head = NoResponse
    /\ r = NoResponse
    /\ requests = <<>>
    /\ probe_pc = "call"
    /\ probe_result = "none"
    /\ ParseIdle /\ DedupeIdle /\ DriverIdle /\ RerunIdle /\ LoadIdle /\ CategoryIdle

\* The environment check of is_working.py and the headers.
ProbeEntry ==
    /\ probe_pc = "call"
    /\ user_agent' = EffectiveUserAgent(module_name, github_actions, user_agent)
    /\ headers' = Headers(user_agent')
    /\ probe_pc' = "cookies"
    /\ UNCHANGED <<module_name, github_actions, url, cookies, cookie_dict, head, r, requests, probe_result>>
    /\ UNCHANGED otherThanProbe

\* cookie_dict = {}; if cookies: try ... except
ProbeParseCookies ==
    /\ probe_pc = "cookies"
    /\ cookie_dict' = ParseCookies(cookies)
    /\ probe_pc' = "head"
    /\ UNCHANGED <<module_name, github_actions, url, cookies, user_agent, headers, head, r, requests, probe_result>>
    /\ UNCHANGED otherThanProbe

Request(method) == [method |-> method, url |-> url, headers |-> headers, cookies |-> cookie_dict]

\* head = requests.head(url, ...), with what the network answers
ProbeHead ==
    /\ probe_pc = "head"
    /\ \E resp \in Outcomes :
          /\ head' = resp
          /\ probe_pc' = AfterHead(resp).pc
          /\ probe_result' = AfterHead(resp).result
    /\ requests' = Append(requests, Request("HEAD"))
    /\ UNCHANGED <<module_name, github_actions, url, cookies, user_agent, headers, cookie_dict, r>>
    /\ UNCHANGED otherThanProbe

\* with requests.get(url, ..., stream=True) as r
ProbeGet ==
    /\ probe_pc = "get"
    /\ \E resp \in Outcomes :
          /\ r' = resp
          /\ probe_pc' = AfterGet(resp).pc
          /\ probe_result' = AfterGet(resp).result
    /\ requests' = Append(requests, Request("GET"))
    /\ UNCHANGED <<module_name, github_actions, url, cookies, user_agent, headers, cookie_dict, head>>
    /\ UNCHANGED otherThanProbe

\* next(r.iter_content(chunk_size=256), None), which may raise
ProbeRead ==
    /\ probe_pc = "read"
    /\ \E read_raised \in BOOLEAN :
          /\ probe_pc' = AfterRead(read_raised).pc
          /\ probe_result' = AfterRead(read_raised).result
    /\ UNCHANGED <<module_name, github_actions, url, cookies, user_agent, headers, cookie_dict, head, r, requests>>
    /\ UNCHANGED otherThanProbe

NextProbe == ProbeEntry \/ ProbeParseCookies \/ ProbeHead \/ ProbeGet \/ ProbeRead

SpecProbe == InitProbe /\ [][NextProbe]_vars

----------------------------------------------------------------------------
(* Claims about is_m3u8_working (SpecProbe).                                *)

Methods == [i \in 1..Len(requests) |-> requests[i].method]

\* C5: the requests of a call are one HEAD, or one HEAD and then one GET;
\* the GET is sent only when the HEAD gave no 2xx status, and a 2xx HEAD
\* returns True with no GET.
C5_HeadThenAtMostOneGet ==
    /\ Methods \in {<<>>, <<"HEAD">>, <<"HEAD", "GET">>}
    /\ Len(requests) = 2 => ~IsSuccess(head)
    /\ (Len(requests) >= 1 /\ IsSuccess(head)) =>
          probe_pc = "returned" /\ probe_result = "True" /\ Methods = <<"HEAD">>
    /\ probe_pc = "returned" => Len(requests) >= 1

\* A call has returned after a HEAD that gave a 2xx status.
C5_Witness ==
    /\ probe_pc = "returned"
    /\ IsSuccess(head)
    /\ head.status = 299
    /\ Methods = <<"HEAD">>

\* C6: when the HEAD gives no 2xx status (another status or an exception),
\* the call returns True exactly when the GET status is 2xx, and False when
\* the GET status is not 2xx or the GET raises.
C6_GetDecidesAfterHeadFailure ==
    (probe_pc = "returned" /\ ~IsSuccess(head)) =>
        /\ Methods = <<"HEAD", "GET">>
        /\ probe_result = (IF IsSuccess(r) THEN "True" ELSE "False")

\* A call has returned True after a HEAD that raised and a GET with a 2xx
\* status.
C6_Witness ==
    /\ probe_pc = "returned"
    /\ head.raised
    /\ IsSuccess(r)
    /\ probe_result = "True"

\* C7: no exception escapes is_m3u8_working: whatever fails (the cookie
\* parsing, the HEAD, the GET, the read of the body), the call is at one of
\* its steps, never left by an exception, and when it has returned its result
\* is True or False.
C7_NoExceptionEscapes ==
    /\ probe_pc \in {"idle", "call", "cookies", "head", "get", "read", "returned"}
    /\ probe_pc = "returned" <=> probe_result \in {"True", "False"}

\* A call with cookies that are not a string has returned False after both
\* requests raised.
C7_Witness ==
    /\ probe_pc = "returned"
    /\ ~cookies.is_str
    /\ head.raised
    /\ r.raised
    /\ probe_result = "False"

----------------------------------------------------------------------------
(* The dedupe loop of main, one channel at a time, on any list of records. *)

\* The longest list of channels handed to the dedupe loop.
MaxChannels == 4

\* Records as the loop may meet them: two with the same URL up to
\* surrounding whitespace, one with a blank URL, one without the key.
RecordPool ==
    {[id |-> "one", title |-> "One", m3u8 |-> "http://a.tv/1.m3u8"],
     [id |-> "uno", title |-> "Uno", m3u8 |-> " http://a.tv/1.m3u8 ", cookies |-> "k=v"],
     [id |-> "two", title |-> "Two", m3u8 |-> "http://b.tv/2.m3u8"],
     [id |-> "blank", title |-> "Blank", m3u8 |-> "  "],
     [id |-> "none", title |-> "None"]}

otherThanDedupe == <<parseVars, probeVars, driverVars, loadVars, categoryVars>>

InitDedupe ==
    /\ all_channels \in UNION {[1..n -> RecordPool] : n \in 0..MaxChannels}
    /\ dd_no = 1
    /\ deduped = <<>>
    /\ pass_no = 1
    /\ first_output = <<>>
    /\ ParseIdle /\ ProbeIdle /\ DriverIdle /\ LoadIdle /\ CategoryIdle

\* for ch in all_channels: one iteration
DedupeIterate ==
    /\ main_pc \in {"idle", "dedupe"}
    /\ dd_no <= Len(all_channels)
    /\ deduped' = DedupeStep(deduped, all_channels[dd_no])
    /\ dd_no' = dd_no + 1
    /\ UNCHANGED <<all_channels, rerunVars, otherThanDedupe>>

\* The loop is run again on the list it produced.
DedupeAgain ==
    /\ main_pc = "idle"
    /\ dd_no > Len(all_channels)
    /\ pass_no = 1
    /\ first_output' = Values(deduped)
    /\ all_channels' = Values(deduped)
    /\ deduped' = <<>>
    /\ dd_no' = 1
    /\ pass_no' = 2
    /\ UNCHANGED otherThanDedupe

NextDedupe == DedupeIterate \/ DedupeAgain

SpecDedupe == InitDedupe /\ [][NextDedupe]_vars

----------------------------------------------------------------------------
(* Claims about the dedupe loop (SpecDedupe).                               *)

DedupeDone == dd_no > Len(all_channels)

\* The index of the first channel of all_channels with the trimmed URL u.
FirstWith(u) == CHOOSE i \in 1..Len(all_channels) :
                    /\ DedupeKey(all_channels[i]) = u
                    /\ \A j \in 1..(i - 1) : DedupeKey(all_channels[j]) # u

\* The trimmed, non-blank URLs of all_channels.
UrlsOf(chs) == {DedupeKey(chs[i]) : i \in 1..Len(chs)} \ {""}

\* C8: the output of the dedupe loop holds exactly one record per distinct
\* trimmed non-blank URL, the first record with that URL in processing
\* order, unchanged; records with a blank or missing URL are dropped; the
\* output is in order of first occurrence.
C8_FirstSeenWins ==
    DedupeDone =>
        LET out == Values(deduped)
        IN  /\ UrlsOf(out) = UrlsOf(all_channels)
            /\ Len(out) = Cardinality(UrlsOf(all_channels))
            /\ \A j \in 1..Len(out) :
                  /\ DedupeKey(out[j]) # ""
                  /\ out[j] = all_channels[FirstWith(DedupeKey(out[j]))]
            /\ \A j, k \in 1..Len(out) :
                  j < k => FirstWith(DedupeKey(out[j])) < FirstWith(DedupeKey(out[k]))

\* The loop has gone through a list with two different records of one URL
\* (up to whitespace), a record with a blank URL and a record without one,
\* and a second URL before them.
C8_Witness ==
    /\ DedupeDone
    /\ pass_no = 1
    /\ Len(all_channels) = 4
    /\ Len(deduped) = 2
    /\ \E i, j \in 1..4 : i < j /\ all_channels[i] # all_channels[j]
                          /\ DedupeKey(all_channels[i]) = DedupeKey(all_channels[j])
                          /\ DedupeKey(all_channels[i]) # ""
    /\ \E i \in 1..4 : "m3u8" \notin DOMAIN all_channels[i] \/ DedupeKey(all_channels[i]) = ""

\* C9: the dedupe loop run on its own output gives the same list again.
C9_DedupeIdempotent ==
    (pass_no = 2 /\ DedupeDone) => Values(deduped) = first_output

\* The second run has ended on an output of two records, the first of
\* which has whitespace around its URL.
C9_Witness ==
    /\ pass_no = 2
    /\ DedupeDone
    /\ Len(first_output) = 2
    /\ first_output[1]["m3u8"] # DedupeKey(first_output[1])

----------------------------------------------------------------------------
(* main: fetch and parse every source, dedupe, save, probe, save.           *)

\* What each source may serve when its download succeeds. Together the
\* sources hold six different URLs, two of them in two sources.
SourceTexts ==
    <<{Join(<<"#EXTM3U",
              "#EXTINF:-1 group-title=\"Kids\",A", "#EXTVLCOPT:http-user-agent=VLC/3.0", "http://a.tv/1.m3u8",
              "#EXTINF:-1,B", "http://b.tv/2.m3u8">>, "\n")},
      {Join(<<"#EXTINF:-1 tvg-name=\"B two\",B", "#EXTHTTP:{\"cookie\":\"k=v\"}", "http://b.tv/2.m3u8",
              "#EXTINF:-1,C", "http://c.tv/3.m3u8">>, "\n")},
      {Join(<<"#EXTINF:-1,D", "http://d.tv/4.m3u8", "#EXTINF:-1,E", "http://e.tv/5.m3u8">>, "\n")},
      {Join(<<"#EXTINF:-1,F", "http://f.tv/6.m3u8", "#EXTINF:-1,A again", "http://a.tv/1.m3u8 ">>, "\n")}>>

\* What an earlier run left in merge.json: a channel the sources still list
\* and one that no source lists any more.
PriorSnapshot ==
    <<[id |-> "a", title |-> "A", category |-> "Kids", m3u8 |-> "http://a.tv/1.m3u8", user_agent |-> "VLC/3.0"],
      [id |-> "z", title |-> "Z", category |-> "General", m3u8 |-> "http://z.tv/9.m3u8"]>>

InitMain ==
    /\ main_pc = "fetch"
    /\ src_no = 1
    /\ all_channels = <<>>
    /\ dd_no = 1
    /\ deduped = <<>>
    /\ files = SaveJson(EmptyDict, "merge.json", PriorSnapshot)
    /\ test_count = 0
    /\ checked = 0
    /\ loop_i = 1
    /\ working_channels = <<>>
    /\ probe_log = <<>>
    /\ fetch_log = <<>>
    /\ ParseIdle /\ ProbeIdle /\ RerunIdle /\ LoadIdle /\ CategoryIdle

\* m3u_text = fetch_m3u(url); parsed = parse_m3u(m3u_text); all_channels.extend(parsed)
FetchSource ==
    /\ main_pc = "fetch"
    /\ src_no <= Len(M3U_URLS)
    /\ \E text \in SourceTexts[src_no] :
          /\ all_channels' = all_channels \o ParseM3u(text)
          /\ fetch_log' = Append(fetch_log, [url |-> M3U_URLS[src_no], ok |-> TRUE, text |-> text])
    /\ src_no' = src_no + 1
    /\ UNCHANGED <<main_pc, dd_no, deduped, files, test_count, checked, loop_i, working_channels, probe_log>>
    /\ UNCHANGED <<parseVars, probeVars, rerunVars, loadVars, categoryVars>>

\* A failed fetch whose exception leaves main.
FetchFails_Fatal ==
    /\ main_pc = "fetch"
    /\ src_no <= Len(M3U_URLS)
    /\ main_pc' = "raised"
    /\ fetch_log' = Append(fetch_log, [url |-> M3U_URLS[src_no], ok |-> FALSE, text |-> ""])
    /\ UNCHANGED <<src_no, all_channels, dd_no, deduped, files, test_count, checked, loop_i, working_channels, probe_log>>
    /\ UNCHANGED <<parseVars, probeVars, rerunVars, loadVars, categoryVars>>

\* A failed fetch that also throws away what the earlier sources gave.
FetchFails_DropsEarlier ==
    /\ main_pc = "fetch"
    /\ src_no <= Len(M3U_URLS)
    /\ src_no' = src_no + 1
    /\ all_channels' = <<>>
    /\ fetch_log' = Append(fetch_log, [url |-> M3U_URLS[src_no], ok |-> FALSE, text |-> ""])
    /\ UNCHANGED <<main_pc, dd_no, deduped, files, test_count, checked, loop_i, working_channels, probe_log>>
    /\ UNCHANGED <<parseVars, probeVars, rerunVars, loadVars, categoryVars>>

\* except Exception: the source is skipped
FetchFails ==
    /\ main_pc = "fetch"
    /\ src_no <= Len(M3U_URLS)
    /\ src_no' = src_no + 1
    /\ fetch_log' = Append(fetch_log, [url |-> M3U_URLS[src_no], ok |-> FALSE, text |-> ""])
    /\ UNCHANGED <<main_pc, all_channels, dd_no, deduped, files, test_count, checked, loop_i, working_channels, probe_log>>
    /\ UNCHANGED <<parseVars, probeVars, rerunVars, loadVars, categoryVars>>

\* deduped = {}
FetchDone ==
    /\ main_pc = "fetch"
    /\ src_no > Len(M3U_URLS)
    /\ main_pc' = "dedupe"
    /\ deduped' = <<>>
    /\ dd_no' = 1
    /\ UNCHANGED <<src_no, all_channels, files, test_count, checked, loop_i, working_channels, probe_log, fetch_log>>
    /\ UNCHANGED <<parseVars, probeVars, rerunVars, loadVars, categoryVars>>

\* save_json(list(deduped.values()), all_parsed_file); working_channels = [];
\* checked = 0; test_count = min(5, len(deduped))
SaveAllParsed ==
    /\ main_pc = "dedupe"
    /\ dd_no > Len(all_channels)
    /\ files' = SaveJson(files, "all_parsed.json", Values(deduped))
    /\ working_channels' = <<>>
    /\ checked' = 0
    /\ test_count' = TestCount(deduped)
    /\ loop_i' = 1
    /\ main_pc' = "probe_debug"
    /\ UNCHANGED <<src_no, all_channels, dd_no, deduped, probe_log, fetch_log>>
    /\ UNCHANGED <<parseVars, probeVars, rerunVars, loadVars, categoryVars>>

\* ok = is_m3u8_working(m3u8_url, cookies, user_agent): the call
CallProbe(item) ==
    /\ probe_pc = "idle"
    /\ checked' = checked + 1
    /\ module_name' = "convert"
    /\ url' = item.key
    /\ cookies' = StrArg(Get(item.ch, "cookies", ""))
    /\ user_agent' = Get(item.ch, "user_agent", "")
    /\ probe_pc' = "call"
    /\ UNCHANGED <<github_actions, headers, cookie_dict, head, r, requests, probe_result>>
    /\ UNCHANGED <<main_pc, src_no, all_channels, dd_no, deduped, files, test_count, loop_i, working_channels, probe_log, fetch_log>>
    /\ UNCHANGED <<parseVars, rerunVars, loadVars, categoryVars>>

\* if ok: working_channels.append(ch); the next item of the loop
ReturnFromProbe(item) ==
    /\ probe_pc = "returned"
    /\ working_channels' = IF probe_result = "True" THEN Append(working_channels, item.ch) ELSE working_channels
    /\ probe_log' = Append(probe_log, [url |-> url, ok |-> probe_result = "True"])
    /\ loop_i' = loop_i + 1
    /\ url' = ""
    /\ cookies' = StrArg("")
    /\ user_agent' = ""
    /\ headers' = EmptyDict
    /\ cookie_dict' = EmptyDict
    /\ head' = NoResponse
    /\ r' = NoResponse
    /\ requests' = <<>>
    /\ probe_pc' = "idle"
    /\ probe_result' = "none"
    /\ UNCHANGED <<module_name, github_actions>>
    /\ UNCHANGED <<main_pc, src_no, all_channels, dd_no, deduped, files, test_count, checked, fetch_log>>
    /\ UNCHANGED <<parseVars, rerunVars, loadVars, categoryVars>>

\* for m3u8_url, ch in list(deduped.items())[:test_count]
DebugCall ==
    /\ main_pc = "probe_debug"
    /\ loop_i <= Len(DebugItems(deduped, test_count))
    /\ CallProbe(DebugItems(deduped, test_count)[loop_i])

DebugReturn ==
    /\ main_pc = "probe_debug"
    /\ loop_i <= Len(DebugItems(deduped, test_count))
    /\ ReturnFromProbe(DebugItems(deduped, test_count)[loop_i])

DebugExit ==
    /\ main_pc = "probe_debug"
    /\ probe_pc = "idle"
    /\ loop_i > Len(DebugItems(deduped, test_count))
    /\ main_pc' = "probe_rest"
    /\ loop_i' = 1
    /\ UNCHANGED <<src_no, all_channels, dd_no, deduped, files, test_count, checked, working_channels, probe_log, fetch_log>>
    /\ UNCHANGED <<parseVars, probeVars, rerunVars, loadVars, categoryVars>>

\* for m3u8_url, ch in list(deduped.items())[test_count:]
RestCall ==
    /\ main_pc = "probe_rest"
    /\ loop_i <= Len(RestItems(deduped, test_count))
    /\ CallProbe(RestItems(deduped, test_count)[loop_i])

RestReturn ==
    /\ main_pc = "probe_rest"
    /\ loop_i <= Len(RestItems(deduped, test_count))
    /\ ReturnFromProbe(RestItems(deduped, test_count)[loop_i])

\* save_json(working_channels, OUTPUT_FILE)
SaveWorking ==
    /\ main_pc = "probe_rest"
    /\ probe_pc = "idle"
    /\ loop_i > Len(RestItems(deduped, test_count))
    /\ files' = SaveJson(files, "merge.json", working_channels)
    /\ main_pc' = "done"
    /\ UNCHANGED <<src_no, all_channels, dd_no, deduped, test_count, checked, loop_i, working_channels, probe_log, fetch_log>>
    /\ UNCHANGED <<parseVars, probeVars, rerunVars, loadVars, categoryVars>>

NextMain ==
    \/ FetchSource \/ FetchFails \/ FetchDone
    \/ DedupeIterate \/ SaveAllParsed
    \/ DebugCall \/ DebugReturn \/ DebugExit
    \/ RestCall \/ RestReturn \/ SaveWorking
    \/ ProbeEntry \/ ProbeParseCookies \/ ProbeHead \/ ProbeGet \/ ProbeRead

SpecMain == InitMain /\ [][NextMain]_vars

\* The loop over M3U_URLS goes on to its next source, whether the fetch of
\* the present one returned or raised.
NextSource ==
    /\ main_pc = "fetch"
    /\ src_no <= Len(M3U_URLS)
    /\ src_no' = src_no + 1

\* The statements of main after the loop over M3U_URLS.
AfterFetch ==
    \/ FetchDone
    \/ DedupeIterate \/ SaveAllParsed
    \/ DebugCall \/ DebugReturn \/ DebugExit
    \/ RestCall \/ RestReturn \/ SaveWorking
    \/ ProbeEntry \/ ProbeParseCookies \/ ProbeHead \/ ProbeGet \/ ProbeRead

\* main is one sequential program: the interpreter runs its next statement
\* whenever there is one, and every request returns or raises within its
\* timeout.
SpecMainFair == InitMain /\ [][NextMain]_vars /\ WF_src_no(NextSource) /\ WF_vars(AfterFetch)

----------------------------------------------------------------------------
(* Claims about main (SpecMain).                                            *)

\* The channels of deduped whose probe, by the log of calls, returned True.
ReachableOnes ==
    LET idx == SelectSeq([i \in 1..Len(probe_log) |-> i], LAMBDA i : probe_log[i].ok)
    IN  [j \in 1..Len(idx) |-> deduped[idx[j]].ch]

\* C10: every record of the merged set is probed once, one after the other
\* in merge order, and the list saved at the end is the records whose probe
\* returned reachable, in merge order, whatever the size of the merged set.
C10_ProbedOnceSavedInOrder ==
    /\ Len(probe_log) <= Len(deduped)
    /\ \A i \in 1..Len(probe_log) : probe_log[i].url = deduped[i].key
    /\ checked \in {Len(probe_log), Len(probe_log) + 1}
    /\ main_pc = "done" =>
          /\ Len(probe_log) = Len(deduped)
          /\ "merge.json" \in DOMAIN files
          /\ files["merge.json"] = ReachableOnes

\* A run has ended on a merged set of six records, more than the five of
\* the debugging loop, with reachable and unreachable ones in both loops.
C10_Witness ==
    /\ main_pc = "done"
    /\ Len(deduped) = 6
    /\ probe_log[1].ok /\ ~probe_log[2].ok /\ probe_log[5].ok /\ probe_log[6].ok
    /\ Len(files["merge.json"]) = 4

RECURSIVE Fetched(_)
\* The records of the first n sources, in configured order: those parsed
\* from a source that was fetched, none from a source whose fetch failed.
Fetched(n) ==
    IF n = 0 THEN <<>>
    ELSE Fetched(n - 1) \o (IF fetch_log[n].ok THEN ParseM3u(fetch_log[n].text) ELSE <<>>)

\* C11: a fetch failure is isolated to its source. Whatever subset of the
\* sources fails, a failing source contributes no records, and the list given
\* to the dedupe loop is the concatenation, in configured source order, of
\* the records parsed from the sources that were fetched.
C11_FetchFailureIsolated ==
    /\ Len(fetch_log) = src_no - 1
    /\ \A i \in 1..Len(fetch_log) : fetch_log[i].url = M3U_URLS[i]
    /\ all_channels = Fetched(Len(fetch_log))
    /\ main_pc # "fetch" => Len(fetch_log) = Len(M3U_URLS)

\* The dedupe loop starts on the records of the first and third source, the
\* second and fourth having failed.
C11_Witness ==
    /\ main_pc = "dedupe"
    /\ Len(fetch_log) = 4
    /\ fetch_log[1].ok /\ ~fetch_log[2].ok /\ fetch_log[3].ok /\ ~fetch_log[4].ok
    /\ Len(all_channels) = 4

\* C12: no failure of a source or of a channel is fatal. Whatever sources
\* fail to be fetched and whatever the probes of the URLs give (a status
\* outside 2xx, an exception or a timeout in either request), the run of
\* main reaches the save of the final list and ends.
C12_RunReachesFinalSave == <>[](main_pc = "done" /\ "merge.json" \in DOMAIN files)

\* A run has ended although three sources failed and no URL was reachable:
\* the final list was saved, empty.
C12_Witness ==
    /\ main_pc = "done"
    /\ Cardinality({i \in 1..Len(fetch_log) : ~fetch_log[i].ok}) = 3
    /\ Len(probe_log) > 0
    /\ \A i \in 1..Len(probe_log) : ~probe_log[i].ok
    /\ files["merge.json"] = <<>>

----------------------------------------------------------------------------
(* load_existing_json (convert.py).                                         *)

(* What json.load gives: a value with its type. *)

JStr(v) == [str |-> v]

JNull == [null |-> TRUE]

JInt(n) == [int |-> n]

JDict(d) == [dict |-> d]

JList(l) == [list |-> l]

\* type(v)
Type(v) == CHOOSE t \in DOMAIN v : TRUE

\* The string, number, dict or list that v is.
Val(v) == v[Type(v)]

\* bool(v)
Truthy(v) ==
    CASE Type(v) = "str" -> Val(v) # ""
      [] Type(v) = "null" -> FALSE
      [] Type(v) = "int" -> Val(v) # 0
      [] Type(v) = "dict" -> DOMAIN Val(v) # {}
      [] Type(v) = "list" -> Len(Val(v)) > 0

\* a or b
PyOr(a, b) == IF Truthy(a) THEN a ELSE b

\* str(v), for the values a title is given here
PyStr(v) ==
    CASE Type(v) = "str" -> Val(v)
      [] Type(v) = "null" -> "None"
      [] Type(v) = "int" -> Char(Digits, Val(v) + 1)

\* ch.get(key, default)
JGet(ch, key, default) == IF key \in DOMAIN Val(ch) THEN Val(ch)[key] ELSE default

\* The body of the loop without the legacy name: only m3u8 is looked at.
LoadEntry_NoLegacy(ch) ==
    IF Type(ch) # "dict" THEN <<>>
    ELSE LET m3u8 == JGet(ch, "m3u8", JNull)
         IN  IF ~Truthy(m3u8) THEN <<>>
             ELSE <<[id |-> PyOr(JGet(ch, "id", JNull),
                                 JStr(SubNonWord(Lower(PyStr(JGet(ch, "title", JStr("unknown"))))))),
                     title |-> JGet(ch, "title", JStr("Unknown")),
                     category |-> JGet(ch, "category", JStr("General")),
                     m3u8 |-> m3u8,
                     logo |-> JGet(ch, "logo", JStr("")),
                     tvg_id |-> JGet(ch, "tvg_id", JStr("")),
                     tvg_chno |-> JGet(ch, "tvg_chno", JStr("")),
                     cookies |-> JGet(ch, "cookies", JStr("")),
                     user_agent |-> JGet(ch, "user_agent", JStr(""))]>>

\* The body of the loop over data: what one entry adds to normalized.
LoadEntry(ch) ==
    IF Type(ch) # "dict" THEN <<>>
    ELSE LET m3u8 == PyOr(JGet(ch, "m3u8", JNull), JGet(ch, "url", JNull))
         IN  IF ~Truthy(m3u8) THEN <<>>
             ELSE <<[id |-> PyOr(JGet(ch, "id", JNull),
                                 JStr(SubNonWord(Lower(PyStr(JGet(ch, "title", JStr("unknown"))))))),
                     title |-> JGet(ch, "title", JStr("Unknown")),
                     category |-> JGet(ch, "category", JStr("General")),
                     m3u8 |-> m3u8,
                     logo |-> JGet(ch, "logo", JStr("")),
                     tvg_id |-> JGet(ch, "tvg_id", JStr("")),
                     tvg_chno |-> JGet(ch, "tvg_chno", JStr("")),
                     cookies |-> JGet(ch, "cookies", JStr("")),
                     user_agent |-> JGet(ch, "user_agent", JStr(""))]>>

RECURSIVE LoadEntries(_)
LoadEntries(entries) ==
    IF entries = <<>> THEN <<>> ELSE LoadEntry(Head(entries)) \o LoadEntries(Tail(entries))

\* A file that is not JSON: json.load raises.
BadFile == [exists |-> TRUE, json |-> FALSE, data |-> JNull]

\* A file holding the JSON value data.
JsonFile(data) == [exists |-> TRUE, json |-> TRUE, data |-> data]

\* load_existing_json(path), in one step
LoadExistingJson(file) ==
    IF ~file.exists THEN <<>>
    ELSE IF ~file.json THEN <<>>
    ELSE IF Type(file.data) = "list" THEN LoadEntries(Val(file.data))
    ELSE <<>>

----------------------------------------------------------------------------
(* The files load_existing_json is run on.                                  *)

\* The longest list of entries in a file.
MaxEntries == 2

\* A key the entry does not have.
Absent == [absent |-> TRUE]

\* The JSON object with the fields that are not Absent.
Entry(fields) == JDict([k \in {f \in DOMAIN fields : fields[f] # Absent} |-> fields[k]])

\* Entries with and without a URL under either name, and values that are
\* not objects.
UrlEntries ==
    {Entry([m3u8 |-> m, url |-> u, title |-> JStr("T")]) :
        m \in {Absent, JStr(""), JNull, JStr("http://a.tv/1.m3u8")},
        u \in {Absent, JStr(""), JStr("http://b.tv/2.m3u8")}}
    \cup {JStr("http://c.tv/3.m3u8"), JInt(7), JNull}

\* Entries with a URL and every combination of id, title and category.
FieldEntries ==
    {Entry([m3u8 |-> JStr("http://a.tv/1.m3u8"), id |-> i, title |-> t, category |-> c]) :
        i \in {Absent, JStr(""), JNull, JStr("x1")},
        t \in {Absent, JStr(""), JNull, JStr("News One"), JInt(7)},
        c \in {Absent, JStr(""), JNull, JStr("Kids")}}

Files ==
    {NoFile, BadFile, JsonFile(JNull), JsonFile(Entry([m3u8 |-> JStr("http://a.tv/1.m3u8")]))}
    \cup {JsonFile(JList(l)) : l \in UNION {[1..n -> UrlEntries] : n \in 0..MaxEntries}}
    \cup {JsonFile(JList(<<e>>)) : e \in FieldEntries}

otherThanLoad == <<parseVars, probeVars, dedupeVars, driverVars, rerunVars, categoryVars>>

InitLoad ==
    /\ path \in Files
    /\ load_no = 1
    /\ normalized = <<>>
    /\ load_pc = "call"
    /\ load_result = <<>>
    /\ ParseIdle /\ ProbeIdle /\ DedupeIdle /\ DriverIdle /\ RerunIdle /\ CategoryIdle

\* if not path.exists(): return []
LoadMissing ==
    /\ load_pc = "call"
    /\ ~path.exists
    /\ load_result' = <<>>
    /\ load_pc' = "returned"
    /\ UNCHANGED <<path, load_no, normalized, otherThanLoad>>

\* json.load raises; except Exception: return []
LoadRaises ==
    /\ load_pc = "call"
    /\ path.exists /\ ~path.json
    /\ load_result' = <<>>
    /\ load_pc' = "returned"
    /\ UNCHANGED <<path, load_no, normalized, otherThanLoad>>

\* not isinstance(data, list): the last line, return []
LoadNotList ==
    /\ load_pc = "call"
    /\ path.exists /\ path.json /\ Type(path.data) # "list"
    /\ load_result' = <<>>
    /\ load_pc' = "returned"
    /\ UNCHANGED <<path, load_no, normalized, otherThanLoad>>

\* isinstance(data, list): normalized = []
LoadBegin ==
    /\ load_pc = "call"
    /\ path.exists /\ path.json /\ Type(path.data) = "list"
    /\ normalized' = <<>>
    /\ load_no' = 1
    /\ load_pc' = "loop"
    /\ UNCHANGED <<path, load_result, otherThanLoad>>

\* for ch in data: one iteration
LoadIterate ==
    /\ load_pc = "loop"
    /\ load_no <= Len(Val(path.data))
    /\ normalized' = normalized \o LoadEntry(Val(path.data)[load_no])
    /\ load_no' = load_no + 1
    /\ UNCHANGED <<path, load_pc, load_result, otherThanLoad>>

\* return normalized
LoadReturn ==
    /\ load_pc = "loop"
    /\ load_no > Len(Val(path.data))
    /\ load_result' = normalized
    /\ load_pc' = "returned"
    /\ UNCHANGED <<path, load_no, normalized, otherThanLoad>>

NextLoad == LoadMissing \/ LoadRaises \/ LoadNotList \/ LoadBegin \/ LoadIterate \/ LoadReturn

SpecLoad == InitLoad /\ [][NextLoad]_vars

----------------------------------------------------------------------------
(* Claims about load_existing_json (SpecLoad).                              *)

\* The entry has a value under key that is neither null nor empty.
NonEmptyAt(ch, key) == key \in DOMAIN Val(ch) /\ Val(ch)[key] \notin {JNull, JStr("")}

\* The entry is an object with a URL under m3u8 or under url.
HasStreamUrl(ch) == Type(ch) = "dict" /\ (NonEmptyAt(ch, "m3u8") \/ NonEmptyAt(ch, "url"))

StreamUrl(ch) == IF NonEmptyAt(ch, "m3u8") THEN Val(ch)["m3u8"] ELSE Val(ch)["url"]

\* The stream URLs of the entries of a list that have one, in list order.
StreamUrls(entries) ==
    LET kept == SelectSeq(entries, HasStreamUrl)
    IN  [i \in 1..Len(kept) |-> StreamUrl(kept[i])]

\* C14: loading a snapshot returns, in the order of the snapshot, one record
\* for exactly the entries that are objects with a non-empty value under
\* m3u8 or under the legacy name url; the URL of the record is the value of
\* m3u8 when that is non-empty and the value of url otherwise; entries
\* with neither, and entries that are not objects, are dropped.
C14_LoadKeepsEntriesWithUrl ==
    /\ load_pc = "loop" =>
          [i \in 1..Len(normalized) |-> normalized[i].m3u8]
              = StreamUrls(SubSeq(Val(path.data), 1, load_no - 1))
    /\ (load_pc = "returned" /\ path.exists /\ path.json /\ Type(path.data) = "list") =>
          [i \in 1..Len(load_result) |-> load_result[i].m3u8] = StreamUrls(Val(path.data))

\* A snapshot of two entries was loaded: the first has only the legacy url,
\* the second has neither name; one record came back, with the legacy URL.
C14_Witness ==
    /\ load_pc = "returned"
    /\ path.exists /\ path.json /\ Type(path.data) = "list"
    /\ Len(Val(path.data)) = 2
    /\ Type(Val(path.data)[1]) = "dict"
    /\ DOMAIN Val(Val(path.data)[1]) = {"url", "title"}
    /\ Type(Val(path.data)[2]) = "dict"
    /\ DOMAIN Val(Val(path.data)[2]) = {"title"}
    /\ Len(load_result) = 1
    /\ load_result[1].m3u8 = JStr("http://b.tv/2.m3u8")

\* C15: every record that loading a snapshot returns has a non-empty id and
\* a category that is neither null nor empty, whether the id, the title and
\* the category of the entry are present, absent, empty or null.
C15_LoadedRecordsHaveIdAndCategory ==
    \A i \in 1..Len(normalized) :
        /\ normalized[i].id \notin {JNull, JStr("")}
        /\ normalized[i].category \notin {JNull, JStr("")}

----------------------------------------------------------------------------
(* The snapshot of an earlier run and main (SpecMain).                      *)

\* json.load of what save_json wrote for a list of records of strings.
ReadSaved(list) ==
    JsonFile(JList([i \in 1..Len(list) |-> JDict([k \in DOMAIN list[i] |-> JStr(list[i][k])])]))

\* The URLs of the records load_existing_json gives for the earlier snapshot.
PriorUrls ==
    LET loaded == LoadExistingJson(ReadSaved(PriorSnapshot))
    IN  {Strip(Val(loaded[i].m3u8)) : i \in 1..Len(loaded)}

\* C13: main merges the records parsed from the sources with the records
\* loaded from the snapshot of the earlier run: a record that only the
\* earlier snapshot has, and whose URL is not found unreachable, is in the
\* list saved at the end.
C13_PriorSnapshotIsMerged ==
    main_pc = "done" =>
        \A u \in PriorUrls \ UrlsOf(all_channels) :
            \/ \E i \in 1..Len(probe_log) : probe_log[i].url = u /\ ~probe_log[i].ok
            \/ u \in UrlsOf(files["merge.json"])

----------------------------------------------------------------------------
(* _normalize_category on its own.                                          *)

RawCategories ==
    {None, Some(""), Some("  "), Some("Fancode-"), Some(" fancode-Cricket"), Some("Sports; Cricket"),
     Some(";"), Some("kids"), Some("SOCCER"), Some("Live Football and Cricket"), Some("NBA TV"),
     Some("MLB"), Some("NHL hockey news"), Some("BBC Movies"), Some("HBO film"), Some("Documentary"),
     Some("Fancode-Sports; ;")}

Titles ==
    {"", "Cricket Live", "Football vs Cricket", "NBA Basketball", "MLB Baseball Hockey", "NHL",
     "Fox News Movies", "HBO", "Star Plus", "CNN Soccer"}

otherThanCategory == <<parseVars, probeVars, dedupeVars, driverVars, rerunVars, loadVars>>

InitCategory ==
    /\ raw_category \in RawCategories
    /\ title \in Titles
    /\ normalize_pc = "call"
    /\ normalize_result = ""
    /\ ParseIdle /\ ProbeIdle /\ DedupeIdle /\ DriverIdle /\ RerunIdle /\ LoadIdle

\* if raw_category and raw_category.strip()
HasRawCategory == raw_category # None /\ Strip(raw_category[1]) # ""

\* The branch of a vendor category.
NormalizeRaw ==
    /\ normalize_pc = "call"
    /\ HasRawCategory
    /\ normalize_result' = NormalizeCategory(raw_category, title)
    /\ normalize_pc' = "returned"
    /\ UNCHANGED <<raw_category, title, otherThanCategory>>

\* No group-title provided; infer from title
NormalizeTitle ==
    /\ normalize_pc = "call"
    /\ ~HasRawCategory
    /\ normalize_result' = NormalizeCategory(raw_category, title)
    /\ normalize_pc' = "returned"
    /\ UNCHANGED <<raw_category, title, otherThanCategory>>

NextCategory == NormalizeRaw \/ NormalizeTitle

SpecCategory == InitCategory /\ [][NextCategory]_vars

----------------------------------------------------------------------------
(* Claims about _normalize_category (SpecCategory).                         *)

\* C16: for every raw category (absent, blank, only a vendor prefix, with
\* semicolons, or any other string) and every title, the category
\* normaliser returns a string that is not empty.
C16_CategoryNeverEmpty == normalize_pc = "returned" => normalize_result # ""

\* The keyword groups in their priority order.
Priority ==
    <<[category |-> "Cricket", keywords |-> {"cricket"}],
      [category |-> "Football", keywords |-> {"football", "soccer"}],
      [category |-> "Basketball", keywords |-> {"basketball", "nba"}],
      [category |-> "Baseball", keywords |-> {"baseball", "mlb"}],
      [category |-> "Hockey", keywords |-> {"hockey", "nhl"}],
      [category |-> "News", keywords |-> {"news", "cnn", "bbc", "fox news"}],
      [category |-> "Movies", keywords |-> {"movie", "cinema", "film", "hbo"}]>>

\* The category of the first group with a keyword contained in text, or
\* otherwise when there is none.
FirstGroup(text, otherwise) ==
    LET hits == {i \in 1..Len(Priority) : \E k \in Priority[i].keywords : Contains(text, k)}
    IN  IF hits = {} THEN otherwise
        ELSE Priority[CHOOSE i \in hits : \A j \in hits : i <= j].category

\* C19: keyword containment follows one priority order, Cricket, Football,
\* Basketball, Baseball, Hockey, News, Movies, and the first match wins. For
\* a blank raw category the result is the category of the first group with
\* a keyword in the lower-cased title, else "General"; the same mapping is
\* applied to a cleaned raw category that is not a simple category, which is
\* returned as it is when no group matches.
C19_KeywordPriority ==
    normalize_pc = "returned" =>
        IF ~HasRawCategory
        THEN normalize_result = FirstGroup(Lower(title), "General")
        ELSE LET cat == CleanCategory(raw_category[1])
             IN  Lower(cat) \notin SimpleCategories => normalize_result = FirstGroup(Lower(cat), cat)

\* With no raw category, a title naming football before cricket has been
\* given the category Cricket.
C19_Witness ==
    /\ normalize_pc = "returned"
    /\ raw_category = None
    /\ title = "Football vs Cricket"
    /\ normalize_result = "Cricket"

----------------------------------------------------------------------------
(* parse_m3u on one entry: a header line, option lines, a URL line.         *)

\* The most option lines of an entry.
MaxOptions == 2

HeaderPool ==
    {"#EXTINF:-1,Channel One",
     "#EXTINF:-1 group-title=\"News\",  BBC One ",
     "#EXTINF:-1 tvg-logo=\"http://x/a,b.png\",Title Two",
     "#EXTINF:-1 tvg-name=\"Named\" tvg-id=\"n1\",Suffix",
     "#EXTINF:-1 tvg-id=\"x\""}

OptionPool ==
    {"#EXTVLCOPT:http-user-agent=VLC/3.0",
     "#EXTVLCOPT:http-user-agent=samsung-agent/1.1",
     "#EXTVLCOPT:http-referrer=http://r.tv/",
     "#EXTHTTP:{\"cookie\":\"k=v\"}",
     "#EXTHTTP:{\"title\":\"X\",\"id\":\"y\"}",
     "#EXTHTTP:{\"m3u8\":\"http://e.tv/\",\"user_agent\":\"UA2\"}",
     "#EXTHTTP:{bad"}

EntryTexts ==
    {Join(<<h>> \o opts \o <<"http://a.tv/1.m3u8 ">>, "\n") :
        h \in HeaderPool, opts \in UNION {[1..n -> OptionPool] : n \in 0..MaxOptions}}

InitEntry ==
    /\ m3u_text \in EntryTexts
    /\ lines = <<>>
    /\ line_no = 1
    /\ channels = <<>>
    /\ current = EmptyDict
    /\ current_opts = EmptyDict
    /\ parse_pc = "call"
    /\ ProbeIdle /\ DedupeIdle /\ DriverIdle /\ RerunIdle /\ LoadIdle /\ CategoryIdle

SpecEntry == InitEntry /\ [][NextParse]_vars

----------------------------------------------------------------------------
(* Claims about one entry (SpecEntry).                                      *)

\* The title the header line gives when it has no name attribute: the
\* trimmed text after its last comma, "Unknown" when there is none.
TrailingTitle(line) ==
    LET c == RFind(line, ",")
    IN  IF c = 0 \/ Strip(From(line, c + 1)) = "" THEN "Unknown" ELSE Strip(From(line, c + 1))

\* C17: for a header line without a tvg-name attribute the title of the
\* record is the trimmed text after the last comma of the line, also when
\* an attribute value earlier on the line holds a comma; it is "Unknown"
\* when the line has no comma.
C17_TitleAfterLastComma ==
    \A k \in 1..Len(channels) :
        LET h == OwnHeader(UrlPositions[k])
        IN  (h # 0 /\ ~Contains(lines[h], "tvg-name=")) =>
                channels[k]["title"] = TrailingTitle(lines[h])

UserAgentOption == "#EXTVLCOPT:http-user-agent="

\* The user-agent option lines strictly between positions a and b.
UserAgentLines(a, b) == {i \in (a + 1)..(b - 1) : StartsWith(lines[i], UserAgentOption)}

\* C18: when one user-agent option line #EXTVLCOPT:http-user-agent=T, T a
\* token without whitespace, stands between a header line and its URL line,
\* the record emitted at the URL line has user_agent equal to the whole T.
C18_UserAgentIsWholeToken ==
    \A k \in 1..Len(channels) :
        LET p == UrlPositions[k]
            h == OwnHeader(p)
        IN  \A i \in UserAgentLines(h, p) :
                LET T == From(lines[i], Len(UserAgentOption) + 1)
                IN  (h # 0 /\ UserAgentLines(h, p) = {i} /\ T # "" /\ SkipUntil(T, 1, Whitespace) = Len(T) + 1) =>
                        ("user_agent" \in DOMAIN channels[k] /\ channels[k]["user_agent"] = T)

\* C20: merging the pending options into a record at a URL line leaves its
\* id, title, category, logo, tvg_id, tvg_chno and m3u8 as the header line
\* and the URL line gave them, whatever the option lines hold: the only
\* keys option lines add are user_agent, cookies and keys that begin with
\* http_.
C20_OptionsLeaveHeaderFields ==
    \A k \in 1..Len(channels) :
        LET p == UrlPositions[k]
            h == OwnHeader(p)
            rec == channels[k]
        IN  /\ h # 0 => \A f \in HeaderKeys : f \in DOMAIN rec /\ rec[f] = HeaderRecord(lines[h])[f]
            /\ rec["m3u8"] = Strip(lines[p])
            /\ \A f \in DOMAIN OptionPart(rec) : f \in {"user_agent", "cookies"} \/ StartsWith(f, "http_")

\* A record is out whose option lines named title, id, m3u8 and user_agent:
\* they are on it as http_title, http_id, http_m3u8 and http_user_agent, and
\* its title and URL are those of its header line and URL line.
C20_Witness ==
    /\ parse_pc = "returned"
    /\ Len(channels) = 1
    /\ {"http_title", "http_id", "http_m3u8", "http_user_agent"} \subseteq DOMAIN channels[1]
    /\ channels[1]["title"] = "Channel One"
    /\ channels[1]["m3u8"] = "http://a.tv/1.m3u8"

====
